---- MODULE Spec2Model ----
(***************************************************************************)
(* Model of the SmartHand robot serial controller (src/smarthand/robot.py, *)
(* the older variant in src/SmartHand.py) and of the motion procedures of  *)
(* the application that drive it (src/smarthand/app.py).                   *)
(*                                                                         *)
(* Lengths are integers in units of 0.0001 mm, dwell durations in units of *)
(* 0.1 ms.  An optional argument (None in the code) is the empty sequence, *)
(* a given one the one-element sequence.                                   *)
(***************************************************************************)
EXTENDS Integers, Sequences, FiniteSets, TLC

VARIABLES
    conn,             \* self.conn: 0 is None, otherwise the serial handle
    openHandles,      \* handles whose is_open is true
    lock,             \* self.lock: 0 is free, otherwise the holding thread
    pose,             \* self.current_position, <<x, y, z>>
    robot_connected,  \* SmartHandApp.robot_connected
    rx,               \* input buffer of the serial port: lines not yet read
    devq,             \* commands written and not yet answered by the device
    wire,             \* history: commands written since the operation began
    failed,           \* history: the first exchange of the operation that did not end with ok
    script,           \* per thread: the statements still to execute
    sc,               \* per thread: position inside send_command
    resp,             \* per thread: `responses` of the current send_command
    result,           \* per thread: how the last operation ended
    op,               \* per thread: the operation in progress or last run
    pose0,            \* history, per thread: pose when the operation began
    last,             \* history, per thread: how the exchange of the line it wrote last ended
    mapper            \* SmartHandApp: the rectified view and the image-to-robot mapping

vars == <<conn, openHandles, lock, pose, robot_connected, rx, devq, wire,
          failed, script, sc, resp, result, op, pose0, last, mapper>>

----------------------------------------------------------------------------
(* Bounds *)

NThreads == 2
MaxLag == 2
MaxRx == 2
MaxInfo == 1
MaxHandles == 2
MaxJog == 1
MaxNoise == 2

Threads == 1..NThreads

----------------------------------------------------------------------------
(* Program constants *)

HomeZ == -2912800
DefaultFeedrate == 2000

None == <<>>
Some(v) == <<v>>

----------------------------------------------------------------------------
(* Number formatting *)

Abs(v) == IF v < 0 THEN -v ELSE v

\* Nearest multiple of `unit', ties to even: what Python's format gives for
\* a value that is exactly representable.
RoundTo(v, unit) ==
    LET a == Abs(v)
        q == a \div unit
        r == a % unit
        m == IF 2 * r > unit \/ (2 * r = unit /\ q % 2 = 1) THEN q + 1 ELSE q
    IN  IF v < 0 THEN -(m * unit) ELSE m * unit

\* f"{v:.3f}": three decimals of a millimetre
Fmt3(o) == IF o = None THEN None ELSE Some(RoundTo(o[1], 10))

\* dwell: max(0.0, duration) * 1000.0 formatted with :.0f, in milliseconds
DwellMs(d) == RoundTo(IF d < 0 THEN 0 ELSE d, 10) \div 10

----------------------------------------------------------------------------
(* Command lines *)

Line(g, x, y, z, f, p) == [g |-> g, x |-> x, y |-> y, z |-> z, f |-> f, p |-> p]
Plain(g) == Line(g, None, None, None, None, None)
G01(x, y, z, f) == Line("G01", Fmt3(x), Fmt3(y), Fmt3(z), Some(f), None)
G04(ms) == Line("G04", None, None, None, None, Some(ms))

----------------------------------------------------------------------------
(* Arguments and device reports explored *)

SafeZs == {-3500000}
PhoneZs == {-3800000}
TouchForces == {10000}
TouchDurations == {100, 50000}
Targets == {<<100003, 200000>>, <<-250004, 0>>}
Feedrates == {3000}
JogSteps == {10000}
Dwells == {-10, 0, 4, 100}
Reports == {<<10000, 0, HomeZ>>}
Moves == {<<None, None, Some(-3500000)>>, <<Some(100003), Some(200000), None>>}
RawLines == {<<Plain("G28"), TRUE>>, <<Plain("G90"), FALSE>>}

----------------------------------------------------------------------------
(* Statements of a script *)

NoArgs == <<None, None, None>>
Stmt(i, cmd, wait, a, val) == [i |-> i, cmd |-> cmd, wait |-> wait, a |-> a, val |-> val]
Send(cmd, wait) == Stmt("send", cmd, wait, NoArgs, "")
Chk == Stmt("chk", Plain(""), FALSE, NoArgs, "")
Mode(g) == Stmt("mode", Plain(g), FALSE, NoArgs, "")
SetPose(x, y, z) == Stmt("setpose", Plain(""), FALSE, <<x, y, z>>, "")
AddPose(dx, dy, dz) == Stmt("addpose", Plain(""), FALSE, <<dx, dy, dz>>, "")
HomePose == Stmt("homepose", Plain(""), FALSE, NoArgs, "")
GetPos == Stmt("getpos", Plain(""), FALSE, NoArgs, "")
ParsePos == Stmt("parsepos", Plain(""), FALSE, NoArgs, "")
UpdDisp == Stmt("upddisp", Plain(""), FALSE, NoArgs, "")
FlagOn == Stmt("flagon", Plain(""), FALSE, NoArgs, "")
Catch == Stmt("catch", Plain(""), FALSE, NoArgs, "")
Finally(g) == Stmt("finally", Plain(g), FALSE, NoArgs, "")
Reraise(kind) == Stmt("reraise", Plain(""), FALSE, NoArgs, kind)
Ret(val) == Stmt("ret", Plain(""), FALSE, NoArgs, val)

----------------------------------------------------------------------------
(* RobotController methods as scripts *)

FeedOf(f) == IF f = None THEN DefaultFeedrate ELSE f[1]

\* a move that takes an axis that was not given as 0
move_absolute_from_origin(x, y, z, f) ==
    LET v(o) == IF o = None THEN Some(0) ELSE o
    IN  << Chk, Send(G01(x, y, z, FeedOf(f)), TRUE), SetPose(v(x), v(y), v(z)) >>

move_linear_absolute(x, y, z, f) ==
    << Chk, Send(G01(x, y, z, FeedOf(f)), TRUE), SetPose(x, y, z) >>

move_linear_relative(dx, dy, dz, f) ==
    << Chk, Mode("G91"), Send(G01(dx, dy, dz, FeedOf(f)), TRUE), Mode("G90"),
       AddPose(dx, dy, dz) >>

\* a home that asks the device where it is instead of assuming the origin
home_by_query == << Send(Plain("G28"), TRUE), GetPos >>

home == << Send(Plain("G28"), TRUE), HomePose >>

dwell(d) == IF d <= 0 THEN << >> ELSE << Send(G04(DwellMs(d)), TRUE) >>

get_position == << GetPos >>

\* src/SmartHand.py: zero deltas are left out of the line, the mode is
\* restored in a finally clause
NonZero(d) == IF d = 0 THEN None ELSE Some(d)

\* src/SmartHand.py: milliseconds = max(int(seconds * 1000), 1); "G4 P.."
Trunc(v, unit) == IF v < 0 THEN -((-v) \div unit) ELSE v \div unit

\* max(int(seconds * 1000), 1)
LegacyDwellMs(d) == IF Trunc(d, 10) > 1 THEN Trunc(d, 10) ELSE 1

G4(ms) == Line("G4", None, None, None, None, Some(ms))

legacy_dwell(d) == << Send(G4(LegacyDwellMs(d)), TRUE) >>

legacy_move_linear_relative(dx, dy, dz, f) ==
    IF dx = 0 /\ dy = 0 /\ dz = 0
    THEN << Chk >>
    ELSE << Chk, Mode("G91"),
            Send(G01(NonZero(dx), NonZero(dy), NonZero(dz), FeedOf(f)), TRUE),
            AddPose(Some(dx), Some(dy), Some(dz)), Finally("G90") >>

----------------------------------------------------------------------------
(* SmartHandApp procedures as scripts *)

\* a touch that lowers before it moves over the target
touch_lowering_first(real_x, real_y, phone_z, touch_force, touch_duration, safe_z, feedrate) ==
    LET touch_z == phone_z - touch_force
    IN  move_linear_absolute(None, None, Some(safe_z), Some(feedrate))
        \o move_linear_absolute(None, None, Some(touch_z), Some(feedrate))
        \o move_linear_absolute(Some(real_x), Some(real_y), None, Some(feedrate))
        \o dwell(touch_duration)
        \o move_linear_absolute(None, None, Some(safe_z), Some(feedrate))
        \o << Catch, GetPos, UpdDisp, Ret("true") >>

run_touch_sequence(real_x, real_y, phone_z, touch_force, touch_duration, safe_z, feedrate) ==
    LET touch_z == phone_z - touch_force
    IN  move_linear_absolute(None, None, Some(safe_z), Some(feedrate))
        \o move_linear_absolute(Some(real_x), Some(real_y), None, Some(feedrate))
        \o move_linear_absolute(None, None, Some(touch_z), Some(feedrate))
        \o dwell(touch_duration)
        \o move_linear_absolute(None, None, Some(safe_z), Some(feedrate))
        \o << Catch, GetPos, UpdDisp, Ret("true") >>

goto_test_position(real_x, real_y, safe_z, feedrate) ==
    move_linear_absolute(None, None, Some(safe_z), Some(feedrate))
    \o move_linear_absolute(Some(real_x), Some(real_y), None, Some(feedrate))
    \o << Catch, GetPos, UpdDisp, Ret("ok") >>

----------------------------------------------------------------------------
(* Serial connection *)

is_connected == conn # 0 /\ conn \in openHandles

\* a line from the device; `old' once a later command has been written
Reply(k, pos) == [k |-> k, old |-> FALSE, pos |-> pos]

Stale(q) == [j \in 1..Len(q) |-> [q[j] EXCEPT !.old = TRUE]]

\* lower.startswith("ok") or lower.startswith("error")
Terminal(line) == line.k \in {"ok", "error"}

Min(S) == CHOOSE m \in S : \A n \in S : m <= n

Running(t) == result[t] = "running"

----------------------------------------------------------------------------
(* Control flow of one thread *)

\* The statement in progress returned: go on with the next one; the
\* operation returns when nothing is left.
Advance(t, rest) ==
    /\ script' = [script EXCEPT ![t] = rest]
    /\ result' = [result EXCEPT ![t] = IF rest = << >> THEN "ok" ELSE @]

\* The statement in progress raised: control goes to the nearest enclosing
\* except or finally clause, or out of the operation.
Raise(t, kind) ==
    LET s == script[t]
        H == {j \in 2..Len(s) : s[j].i \in {"catch", "finally"}}
    IN  IF H = {}
        THEN /\ script' = [script EXCEPT ![t] = << >>]
             /\ result' = [result EXCEPT ![t] = kind]
        ELSE LET j == Min(H)
             IN  IF s[j].i = "catch"
                 THEN /\ script' = [script EXCEPT ![t] = << >>]
                      /\ result' = [result EXCEPT ![t] = "false"]
                 ELSE /\ script' = [script EXCEPT ![t] =
                            << Mode(s[j].cmd.g), Reraise(kind) >>
                            \o SubSeq(s, j + 1, Len(s))]
                      /\ UNCHANGED result

NoFailure == [at |-> 0, how |-> "none"]

At(t, i) == Running(t) /\ script[t] # << >> /\ Head(script[t]).i = i

----------------------------------------------------------------------------
(* send_command, one step per statement that touches shared state *)

InSend(t, at) == At(t, "send") /\ sc[t] = at

\* history: line number k of the operation ended with `how'
NotedAt(k, how) ==
    IF how \in {"ok", "noack"} \/ failed.at # 0 THEN failed
    ELSE [at |-> k, how |-> how]

Noted(how) == NotedAt(Len(wire), how)

\* the exchange is over: the lock is released and send_command returns
Finish(t, how) ==
    /\ failed' = Noted(how)
    /\ last' = [last EXCEPT ![t] = how]
    /\ lock' = 0
    /\ sc' = [sc EXCEPT ![t] = "idle"]
    /\ Advance(t, Tail(script[t]))

\* send_command without the connection check
SendNoCheck(t) ==
    /\ UNCHANGED mapper
    /\ InSend(t, "idle")
    /\ sc' = [sc EXCEPT ![t] = "acquire"]
    /\ resp' = [resp EXCEPT ![t] = << >>]
    /\ UNCHANGED <<conn, openHandles, lock, pose, robot_connected, rx, devq,
                   wire, failed, script, result, op, pose0, last>>

\* if not self.is_connected(): raise RuntimeError("Robot not connected")
SendCheck(t) ==
    /\ UNCHANGED mapper
    /\ InSend(t, "idle")
    /\ IF is_connected
       THEN /\ sc' = [sc EXCEPT ![t] = "acquire"]
            /\ UNCHANGED <<script, result>>
            /\ UNCHANGED failed
       ELSE /\ Raise(t, "RuntimeError")
            /\ failed' = NotedAt(Len(wire) + 1, "notconnected")
            /\ UNCHANGED sc
    /\ resp' = [resp EXCEPT ![t] = << >>]
    /\ UNCHANGED <<conn, openHandles, lock, pose, robot_connected, rx, devq,
                   wire, op, pose0, last>>

\* send_command entering without the lock being free
AcquireUnguarded(t) ==
    /\ UNCHANGED mapper
    /\ InSend(t, "acquire")
    /\ lock' = t
    /\ sc' = [sc EXCEPT ![t] = "drain"]
    /\ UNCHANGED <<conn, openHandles, pose, robot_connected, rx, devq, wire,
                   failed, script, resp, result, op, pose0, last>>

\* with self.lock:
Acquire(t) ==
    /\ UNCHANGED mapper
    /\ InSend(t, "acquire")
    /\ lock = 0
    /\ lock' = t
    /\ sc' = [sc EXCEPT ![t] = "drain"]
    /\ UNCHANGED <<conn, openHandles, pose, robot_connected, rx, devq, wire,
                   failed, script, resp, result, op, pose0, last>>

\* self._drain_input(): discards what is in the input buffer now
Drain(t) ==
    /\ UNCHANGED mapper
    /\ InSend(t, "drain")
    /\ rx' = IF is_connected THEN << >> ELSE rx
    /\ sc' = [sc EXCEPT ![t] = "write"]
    /\ UNCHANGED <<conn, openHandles, lock, pose, robot_connected, devq, wire,
                   failed, script, resp, result, op, pose0, last>>

\* send_command returning right after the write, whatever wait_for_ok
WriteNoWait(t) ==
    /\ UNCHANGED mapper
    /\ InSend(t, "write")
    /\ is_connected
    /\ Len(devq) < MaxLag
    /\ LET st == Head(script[t]) IN
          /\ wire' = Append(wire, st.cmd)
          /\ devq' = Append(Stale(devq), [cmd |-> st.cmd, old |-> FALSE, n |-> 0])
          /\ last' = [last EXCEPT ![t] = IF st.wait THEN "pending" ELSE "noack"]
    /\ rx' = Stale(rx)
    /\ lock' = 0
    /\ sc' = [sc EXCEPT ![t] = "idle"]
    /\ Advance(t, Tail(script[t]))
    /\ UNCHANGED <<conn, openHandles, pose, robot_connected, resp, op, pose0,
                   failed>>

\* self.conn.write(...); self.conn.flush(); without wait_for_ok the call
\* returns at once.  A handle closed or cleared by now makes write raise.
Write(t) ==
    /\ UNCHANGED mapper
    /\ InSend(t, "write")
    /\ LET st == Head(script[t]) IN
       IF ~is_connected
       THEN /\ Raise(t, "IOError")
            /\ lock' = 0
            /\ sc' = [sc EXCEPT ![t] = "idle"]
            /\ failed' = NotedAt(Len(wire) + 1, "ioerr")
            /\ UNCHANGED <<wire, devq, rx, last>>
       ELSE /\ Len(devq) < MaxLag
            /\ wire' = Append(wire, st.cmd)
            /\ devq' = Append(Stale(devq), [cmd |-> st.cmd, old |-> FALSE, n |-> 0])
            /\ rx' = Stale(rx)
            /\ IF st.wait
               THEN /\ last' = [last EXCEPT ![t] = "pending"]
                    /\ sc' = [sc EXCEPT ![t] = "read"]
                    /\ UNCHANGED <<lock, script, result, failed>>
               ELSE /\ last' = [last EXCEPT ![t] = "noack"]
                    /\ lock' = 0
                    /\ sc' = [sc EXCEPT ![t] = "idle"]
                    /\ Advance(t, Tail(script[t]))
                    /\ UNCHANGED failed
    /\ UNCHANGED <<conn, openHandles, pose, robot_connected, resp, op, pose0>>

\* a read loop that collects every line until the deadline, without the break
ReadLineNoBreak(t) ==
    /\ UNCHANGED mapper
    /\ InSend(t, "read")
    /\ is_connected
    /\ rx # << >>
    /\ rx' = Tail(rx)
    /\ resp' = [resp EXCEPT ![t] = Append(@, Head(rx))]
    /\ UNCHANGED <<conn, openHandles, lock, pose, robot_connected, devq, wire,
                   failed, script, sc, result, op, pose0, last>>

\* line = self.conn.readline()...; responses.append(line); break on ok/error
\* (an empty read is `continue' and changes nothing)
ReadLine(t) ==
    /\ UNCHANGED mapper
    /\ InSend(t, "read")
    /\ is_connected
    /\ rx # << >>
    /\ rx' = Tail(rx)
    /\ resp' = [resp EXCEPT ![t] = Append(@, Head(rx))]
    /\ IF Terminal(Head(rx))
       THEN Finish(t, Head(rx).k)
       ELSE UNCHANGED <<failed, last, lock, sc, script, result>>
    /\ UNCHANGED <<conn, openHandles, pose, robot_connected, devq, wire, op,
                   pose0>>

\* a read loop without a deadline
TimeoutNever(t) ==
    /\ InSend(t, "read")
    /\ FALSE
    /\ UNCHANGED vars

\* while time.time() < end_time: the deadline has passed
Timeout(t) ==
    /\ UNCHANGED mapper
    /\ InSend(t, "read")
    /\ Finish(t, "timeout")
    /\ UNCHANGED <<conn, openHandles, pose, robot_connected, rx, devq, wire,
                   resp, op, pose0>>

\* in_waiting, write, flush or readline raises (serial.SerialException), or
\* the handle was closed or cleared under the read
Fault(t) ==
    /\ UNCHANGED mapper
    /\ \/ InSend(t, "drain") /\ is_connected
       \/ InSend(t, "write") /\ is_connected
       \/ InSend(t, "read")
    /\ failed' = NotedAt(IF sc[t] = "read" THEN Len(wire) ELSE Len(wire) + 1, "ioerr")
    /\ last' = [last EXCEPT ![t] = IF sc[t] = "read" THEN "ioerr" ELSE @]
    /\ lock' = 0
    /\ sc' = [sc EXCEPT ![t] = "idle"]
    /\ Raise(t, "IOError")
    /\ UNCHANGED <<conn, openHandles, pose, robot_connected, rx, devq, wire,
                   resp, op, pose0>>

----------------------------------------------------------------------------
(* The other statements *)

Rest(t) == Tail(script[t])

\* move_linear_*: if not self.is_connected(): raise RuntimeError(...)
Check(t) ==
    /\ UNCHANGED mapper
    /\ At(t, "chk")
    /\ IF is_connected
       THEN Advance(t, Rest(t)) /\ UNCHANGED failed
       ELSE Raise(t, "RuntimeError") /\ failed' = NotedAt(Len(wire) + 1, "notconnected")
    /\ resp' = [resp EXCEPT ![t] = << >>]
    /\ UNCHANGED <<conn, openHandles, lock, pose, robot_connected, rx, devq,
                   wire, sc, op, pose0, last>>

\* set_absolute_mode / set_relative_mode, also as the finally clause of the
\* older variant: if self.is_connected(): self.send_command(g, wait_for_ok=False)
SetMode(t) ==
    /\ UNCHANGED mapper
    /\ At(t, "mode") \/ At(t, "finally")
    /\ IF is_connected
       THEN /\ script' = [script EXCEPT ![t] =
                    << Send(Head(script[t]).cmd, FALSE) >> \o Rest(t)]
            /\ UNCHANGED result
       ELSE Advance(t, Rest(t))
    /\ resp' = [resp EXCEPT ![t] = << >>]
    /\ UNCHANGED <<conn, openHandles, lock, pose, robot_connected, rx, devq,
                   wire, failed, sc, op, pose0, last>>

\* the finally clause is done: the exception goes on
ReraiseStep(t) ==
    /\ UNCHANGED mapper
    /\ At(t, "reraise")
    /\ Raise(t, Head(script[t]).val)
    /\ UNCHANGED <<conn, openHandles, lock, pose, robot_connected, rx, devq,
                   wire, failed, sc, resp, op, pose0, last>>

Assigned(p, a) == [k \in 1..3 |-> IF a[k] = None THEN p[k] ELSE a[k][1]]
Added(p, a) == [k \in 1..3 |-> IF a[k] = None THEN p[k] ELSE p[k] + a[k][1]]
HomePosition == <<0, 0, HomeZ>>

\* the last such line: the loop without its break
ReportedLast(lines) ==
    LET P == {j \in 1..Len(lines) : lines[j].pos # None}
    IN  IF P = {} THEN None ELSE lines[CHOOSE j \in P : \A i \in P : i <= j].pos

\* the first response line that holds X:, Y: and Z: tokens
Reported(lines) ==
    LET P == {j \in 1..Len(lines) : lines[j].pos # None}
    IN  IF P = {} THEN None ELSE lines[Min(P)].pos

\* the assignments to self.current_position
UpdatePose(t) ==
    /\ UNCHANGED mapper
    /\ \/ At(t, "setpose") /\ pose' = Assigned(pose, Head(script[t]).a)
       \/ At(t, "addpose") /\ pose' = Added(pose, Head(script[t]).a)
       \/ At(t, "homepose") /\ pose' = HomePosition
       \/ At(t, "parsepos") /\ pose' = IF Reported(resp[t]) = None THEN pose
                                        ELSE Reported(resp[t])[1]
    /\ Advance(t, Rest(t))
    /\ UNCHANGED <<conn, openHandles, lock, robot_connected, rx, devq, wire,
                   failed, sc, resp, op, pose0, last>>

\* get_position: the tracked pose when disconnected, else M114 and parse;
\* update_position_display asks only if the application believes it is connected
Query(t) ==
    /\ UNCHANGED mapper
    /\ \/ At(t, "getpos") /\ is_connected
       \/ At(t, "upddisp") /\ robot_connected /\ is_connected
    /\ script' = [script EXCEPT ![t] = << Send(Plain("M114"), TRUE), ParsePos >> \o Rest(t)]
    /\ resp' = [resp EXCEPT ![t] = << >>]
    /\ UNCHANGED <<conn, openHandles, lock, pose, robot_connected, rx, devq,
                   wire, failed, sc, result, op, pose0, last>>

SkipQuery(t) ==
    /\ UNCHANGED mapper
    /\ \/ At(t, "getpos") /\ ~is_connected
       \/ At(t, "upddisp") /\ ~(robot_connected /\ is_connected)
    /\ Advance(t, Rest(t))
    /\ resp' = [resp EXCEPT ![t] = << >>]
    /\ UNCHANGED <<conn, openHandles, lock, pose, robot_connected, rx, devq,
                   wire, failed, sc, op, pose0, last>>

\* the try block ended without an exception; its history ends with it
LeaveTry(t) ==
    /\ UNCHANGED mapper
    /\ At(t, "catch")
    /\ Advance(t, Rest(t))
    /\ failed' = NoFailure
    /\ resp' = [resp EXCEPT ![t] = << >>]
    /\ UNCHANGED <<conn, openHandles, lock, pose, robot_connected, rx, devq,
                   wire, sc, op, pose0, last>>

\* connect_robot after a successful connect: self.robot_connected = True
SetFlag(t) ==
    /\ UNCHANGED mapper
    /\ At(t, "flagon")
    /\ robot_connected' = TRUE
    /\ Advance(t, Rest(t))
    /\ resp' = [resp EXCEPT ![t] = << >>]
    /\ UNCHANGED <<conn, openHandles, lock, pose, rx, devq, wire, failed, sc,
                   op, pose0, last>>

Return(t) ==
    /\ UNCHANGED mapper
    /\ At(t, "ret")
    /\ script' = [script EXCEPT ![t] = << >>]
    /\ result' = [result EXCEPT ![t] = Head(script[t]).val]
    /\ resp' = [resp EXCEPT ![t] = << >>]
    /\ UNCHANGED <<conn, openHandles, lock, pose, robot_connected, rx, devq,
                   wire, failed, sc, op, pose0, last>>

----------------------------------------------------------------------------
(* The robot at the other end of the line *)


\* the device answers the oldest unanswered command with ok or error
DeviceAck(k) ==
    /\ UNCHANGED mapper
    /\ devq # << >>
    /\ Len(rx) < MaxRx
    /\ rx' = IF ~is_connected THEN rx
             ELSE Append(rx, [Reply(k, None) EXCEPT !.old = Head(devq).old])
    /\ devq' = Tail(devq)
    /\ UNCHANGED <<conn, openHandles, lock, pose, robot_connected, wire,
                   failed, script, sc, resp, result, op, pose0, last>>

\* the device never answers the oldest unanswered command
DeviceSilent ==
    /\ UNCHANGED mapper
    /\ devq # << >>
    /\ devq' = Tail(devq)
    /\ UNCHANGED <<conn, openHandles, lock, pose, robot_connected, rx, wire,
                   failed, script, sc, resp, result, op, pose0, last>>

\* the device answers M114 with a line that holds X:, Y: and Z: tokens,
\* before the ok
DeviceReport ==
    /\ UNCHANGED mapper
    /\ devq # << >>
    /\ Len(rx) < MaxRx
    /\ is_connected
    /\ Head(devq).cmd.g = "M114"
    /\ Head(devq).n < MaxInfo
    /\ \E r \in Reports : rx' = Append(rx, [Reply("info", Some(r)) EXCEPT !.old = Head(devq).old])
    /\ devq' = [devq EXCEPT ![1].n = @ + 1]
    /\ UNCHANGED <<conn, openHandles, lock, pose, robot_connected, wire,
                   failed, script, sc, resp, result, op, pose0, last>>

----------------------------------------------------------------------------
(* Operations *)

Quiet(t) == \A u \in Threads \ {t} : ~Running(u)

\* Thread t enters an operation, while no other one is in progress only
\* once the device has nothing left to answer.  The history starts afresh;
\* of the exchange before, only that it was cut short is remembered.
BeginOp(t, name, args, scr) ==
    /\ ~Running(t)
    /\ Quiet(t) => devq = << >>
    /\ script' = [script EXCEPT ![t] = scr]
    /\ result' = [result EXCEPT ![t] = IF scr = << >> THEN "ok" ELSE "running"]
    /\ op' = [op EXCEPT ![t] = [name |-> name, a |-> args]]
    /\ pose0' = [pose0 EXCEPT ![t] = pose]
    /\ sc' = [sc EXCEPT ![t] = "idle"]
    /\ resp' = [resp EXCEPT ![t] = << >>]
    /\ last' = [last EXCEPT ![t] = IF @ = "ioerr" THEN @ ELSE "none"]
    /\ wire' = << >>
    /\ failed' = NoFailure
    /\ UNCHANGED devq

\* an operation of the controller: the application's view state is not its
Begin(t, name, args, scr) ==
    /\ UNCHANGED mapper
    /\ BeginOp(t, name, args, scr)

Call(t, name, args, scr) ==
    /\ Begin(t, name, args, scr)
    /\ rx' = Stale(rx)
    /\ UNCHANGED <<conn, openHandles, lock, pose, robot_connected>>

CallHome(t) == Call(t, "home", << >>, home)

CallMoveAbsolute(t) ==
    \E m \in Moves, f \in {None} \cup {Some(v) : v \in Feedrates} :
        Call(t, "move_linear_absolute", <<m[1], m[2], m[3], f>>,
             move_linear_absolute(m[1], m[2], m[3], f))

InReach(p) == \A k \in 1..2 : Abs(p[k]) <= MaxJog * 10000

CallMoveRelative(t) ==
    \E d \in JogSteps, k \in {1} :
        LET a == [j \in 1..3 |-> IF j = k THEN Some(d) ELSE None]
        IN  /\ InReach(Added(pose, a))
            /\ Call(t, "move_linear_relative", <<a[1], a[2], a[3], None>>,
                    move_linear_relative(a[1], a[2], a[3], None))

CallLegacyMoveRelative(t) ==
    \E d \in JogSteps \cup {0} :
        /\ InReach(Added(pose, <<Some(d), None, None>>))
        /\ Call(t, "legacy_move_linear_relative", <<d, 0, 0, None>>,
                legacy_move_linear_relative(d, 0, 0, None))

CallDwell(t) == \E d \in Dwells : Call(t, "dwell", <<d>>, dwell(d))

CallLegacyDwell(t) == \E d \in Dwells : Call(t, "legacy_dwell", <<d>>, legacy_dwell(d))

CallGetPosition(t) == Call(t, "get_position", << >>, get_position)

CallSendCommand(t, lines) ==
    \E r \in lines : Call(t, "send_command", r, << Send(r[1], r[2]) >>)

\* execute_test_touch / handle_click_to_touch: refused unless robot_connected
TouchSequence(t) ==
    /\ robot_connected
    /\ \E xy \in Targets, pz \in PhoneZs, tf \in TouchForces,
          td \in TouchDurations, sz \in SafeZs, f \in Feedrates :
          Call(t, "run_touch_sequence", <<xy[1], xy[2], pz, tf, td, sz, f>>,
               run_touch_sequence(xy[1], xy[2], pz, tf, td, sz, f))

GotoTestPosition(t) ==
    /\ robot_connected
    /\ \E xy \in Targets, sz \in SafeZs, f \in Feedrates :
          Call(t, "goto_test_position", <<xy[1], xy[2], sz, f>>,
               goto_test_position(xy[1], xy[2], sz, f))

\* RobotController.connect.  Opening the port and the handshake on the new
\* handle are one step, with its outcome drawn from `hows': the port cannot
\* be opened, the answer is not the expected one (or none), the handshake
\* write or read raises, the answer matches.  set_absolute_mode, inside the
\* try block, follows as a script, and then `more'.
Connect(t, hows, more) ==
    LET kept == IF is_connected THEN openHandles \ {conn} ELSE openHandles
        conn1 == IF is_connected THEN 0 ELSE conn
        free == (1..MaxHandles) \ kept
    IN  \E how \in hows :
          /\ how \in {"ioerror", "match"} => free # {}
          /\ conn' = IF how = "match" THEN Min(free) ELSE conn1
          /\ openHandles' = IF how \in {"ioerror", "match"}
                            THEN kept \cup {Min(free)} ELSE kept
          /\ pose' = IF how = "match" THEN HomePosition ELSE pose
          /\ rx' = << >>
          /\ Begin(t, "connect", <<how>>,
                   IF how = "match" THEN << Mode("G90"), Catch >> \o more
                   ELSE << Ret("false") >>)
          /\ UNCHANGED <<lock, robot_connected>>

\* connect_robot: the button is enabled while robot_connected is false; after
\* a successful connect the flag is set and the position is queried twice
ConnectRobot(t, hows) ==
    /\ ~robot_connected
    /\ Connect(t, hows, << FlagOn, GetPos, UpdDisp >>)

\* disconnect_robot -> RobotController.disconnect
DisconnectRobot(t) ==
    /\ robot_connected
    /\ conn' = 0
    /\ openHandles' = openHandles \ {conn}
    /\ robot_connected' = FALSE
    /\ rx' = << >>
    /\ Begin(t, "disconnect", << >>, << >>)
    /\ UNCHANGED <<lock, pose>>

----------------------------------------------------------------------------
(* Floating point.  The mapping computes with Python floats: binary         *)
(* floating point, every operation rounded to the nearest value, ties to    *)
(* even.  A float is m * 2^e with a signed significand of MantissaBits      *)
(* bits; the build has 53.  Infinities, NaN and the exponent range are      *)
(* left out: no value of the model comes near them.                         *)

MantissaBits == 10

Zero == [m |-> 0, e |-> 0]

\* the number of bits of a > 0
BitLen(a) ==
    IF a < 1024 THEN CHOOSE b \in 1..10 : a < 2^b
    ELSE IF a < 1048576 THEN CHOOSE b \in 11..20 : a < 2^b
    ELSE CHOOSE b \in 21..30 : a < 2^b

\* n * 2^e rounded to the nearest float
Fl(n, e) ==
    IF n = 0 THEN Zero
    ELSE LET a == Abs(n)
             sg == IF n > 0 THEN 1 ELSE -1
             bits == BitLen(a)
         IN  IF bits <= MantissaBits
             THEN [m |-> n * 2^(MantissaBits - bits), e |-> e - (MantissaBits - bits)]
             ELSE LET d == bits - MantissaBits
                      q == a \div 2^d
                      r == a % 2^d
                      half == 2^(d - 1)
                      up == r > half \/ (r = half /\ q % 2 = 1)
                      q2 == IF up THEN q + 1 ELSE q
                  IN  IF q2 = 2^MantissaBits
                      THEN [m |-> sg * 2^(MantissaBits - 1), e |-> e + d + 1]
                      ELSE [m |-> sg * q2, e |-> e + d]

FNeg(a) == [a EXCEPT !.m = -a.m]

FMul(a, b) == Fl(a.m * b.m, a.e + b.e)

FAdd(a, b) ==
    IF a.m = 0 THEN b
    ELSE IF b.m = 0 THEN a
    ELSE LET hi == IF a.e >= b.e THEN a ELSE b
             lo == IF a.e >= b.e THEN b ELSE a
             d == hi.e - lo.e
         IN  IF d >= MantissaBits + 2 THEN hi
             ELSE Fl(hi.m * 2^d + lo.m, lo.e)

FSub(a, b) == FAdd(a, FNeg(b))

\* a / b for b # 0: the quotient to MantissaBits + 3 bits and a sticky bit
FDiv(a, b) ==
    IF a.m = 0 THEN Zero
    ELSE LET k == MantissaBits + 2
             q == (Abs(a.m) * 2^k) \div Abs(b.m)
             r == (Abs(a.m) * 2^k) % Abs(b.m)
             n == 2 * q + (IF r # 0 THEN 1 ELSE 0)
             sg == IF (a.m > 0) = (b.m > 0) THEN 1 ELSE -1
         IN  Fl(sg * n, a.e - b.e - k - 1)

\* a test for zero in the place of the threshold
ExactlyZero(a) == a.m = 0

\* abs(a) < 1e-6
BelowMicro(a) ==
    \/ a.m = 0
    \/ a.e < 0 /\ (-a.e > 30 \/ Abs(a.m) * 1000000 < 2^(-a.e))

----------------------------------------------------------------------------
(* SmartHandApp: the rectified view and the image-to-robot mapping.         *)
(* Sizes and heights are in pixels.  A matrix is modelled by what the       *)
(* mapping reads of it: the transformation matrix by whether it is set,     *)
(* the mapping matrix by the Y-flip height that calibrate_mapping folded    *)
(* into its translation.                                                    *)

MAX_TRANSFORM_DIMENSION == 4096
MaxDimension == 800

\* round(n / d) and ceil(n / d) for n >= 0, d > 0; round is Python's, half to even
RoundDiv(n, d) ==
    LET q == n \div d
        r == n % d
    IN  IF 2 * r > d \/ (2 * r = d /\ q % 2 = 1) THEN q + 1 ELSE q

CeilDiv(n, d) == (n + d - 1) \div d

Max(a, b) == IF a >= b THEN a ELSE b

\* shape[:2] of a camera frame: height, width
FrameShape == <<480, 640>>

\* What a successful detection measures on the frame: the extent of the
\* chessboard (chess_width, chess_height) and the extent of the whole frame
\* after the chessboard transform (raw_width, raw_height).
Detections ==
    { [chess_width |-> 400, chess_height |-> 300, raw_width |-> 1000, raw_height |-> 700],
      [chess_width |-> 300, chess_height |-> 300, raw_width |-> 5000, raw_height |-> 6000],
      [chess_width |-> 400, chess_height |-> 300, raw_width |-> 0,    raw_height |-> 0] }

\* A text field holds None when float() raises ValueError on its text, and
\* the float it parses to otherwise.  fields is p1_img, p1_real, p2_img,
\* p2_real, each the x and the y field.
EmptyFields == [k \in 1..4 |-> <<None, None>>]

FromInt(i) == Fl(i, 0)

\* the fields after the user typed the integers of two calibration pairs
Typed(p1_img, p1_real, p2_img, p2_real) ==
    [k \in 1..4 |->
        LET pt == <<p1_img, p1_real, p2_img, p2_real>>[k]
        IN  <<Some(FromInt(pt[1])), Some(FromInt(pt[2]))>>]

\* SmartHandApp.__init__, with the calibration file left as it is on disk
MapperInit(file) ==
    [ current_frame         |-> FALSE,
      chessboard_found      |-> FALSE,
      corners               |-> None,
      transformed_frame     |-> None,
      transformation_matrix |-> FALSE,
      transformed_size      |-> <<800, 600>>,
      chk_full_image        |-> TRUE,
      fields                |-> EmptyFields,
      calibration_points    |-> << >>,
      mapping_matrix        |-> None,
      click_mode            |-> "none",
      crop_mode             |-> FALSE,
      chk_click_to_touch    |-> FALSE,
      test_input            |-> <<None, None>>,
      calib_test            |-> <<None, None>>,
      applied               |-> None,
      real_point            |-> None,
      file                  |-> file ]

\* update_transformed_view: the warped frame has the shape of transformed_size
update_transformed_view(m) ==
    IF ~m.current_frame \/ ~m.transformation_matrix
    THEN m
    ELSE [m EXCEPT !.transformed_frame = Some(m.transformed_size[2])]

\* calculate_transformation_matrix, for the corners of detection d
calculate_transformation_matrix(m, d) ==
    LET base_max == Max(d.chess_width, d.chess_height)
        chess_output_width ==
            Max(1, IF base_max > 0 THEN RoundDiv(d.chess_width * MaxDimension, base_max)
                                   ELSE d.chess_width)
        chess_output_height ==
            Max(1, IF base_max > 0 THEN RoundDiv(d.chess_height * MaxDimension, base_max)
                                   ELSE d.chess_height)
        degenerate == d.raw_width <= 0 \/ d.raw_height <= 0
        raw_width  == IF degenerate THEN FrameShape[2] ELSE d.raw_width
        raw_height == IF degenerate THEN FrameShape[1] ELSE d.raw_height
        clamp == raw_width > MAX_TRANSFORM_DIMENSION \/ raw_height > MAX_TRANSFORM_DIMENSION
        longest == Max(raw_width, raw_height)
        output_width ==
            Max(1, IF clamp THEN CeilDiv(raw_width * MAX_TRANSFORM_DIMENSION, longest)
                            ELSE raw_width)
        output_height ==
            Max(1, IF clamp THEN CeilDiv(raw_height * MAX_TRANSFORM_DIMENSION, longest)
                            ELSE raw_height)
    IN  [m EXCEPT !.transformation_matrix = TRUE,
                  !.transformed_size =
                      IF m.chk_full_image THEN <<output_width, output_height>>
                                          ELSE <<chess_output_width, chess_output_height>>]

\* image_point_to_mapping_space: the height it subtracts img_y from; 0 when it
\* leaves the point unflipped
FlipHeight(m) ==
    IF m.transformed_frame # None THEN m.transformed_frame[1] ELSE m.transformed_size[2]

\* image_point_to_mapping_space
image_point_to_mapping_space(m, img_x, img_y) ==
    IF FlipHeight(m) = 0
    THEN <<img_x, img_y>>
    ELSE <<img_x, FSub(FromInt(FlipHeight(m)), img_y)>>

\* rotation_scale @ v + translation, rotation_scale being diag(scale_x, scale_y)
Affine(rs, tr, v) ==
    << FAdd(FAdd(FMul(rs[1], v[1]), FMul(Zero, v[2])), tr[1]),
       FAdd(FAdd(FMul(Zero, v[1]), FMul(rs[2], v[2])), tr[2]) >>

\* the two pairs that calibrate_mapping reads from the fields, image point
\* and robot point each
PairsOf(fields) ==
    << << <<fields[1][1][1], fields[1][2][1]>>, <<fields[2][1][1], fields[2][2][1]>> >>,
       << <<fields[3][1][1], fields[3][2][1]>>, <<fields[4][1][1], fields[4][2][1]>> >> >>

Parses(fields) == \A k \in 1..4 : fields[k][1] # None /\ fields[k][2] # None

\* the deltas that calibrate_mapping divides by
ImgDelta(m, pairs) ==
    LET p1_img_vec == image_point_to_mapping_space(m, pairs[1][1][1], pairs[1][1][2])
        p2_img_vec == image_point_to_mapping_space(m, pairs[2][1][1], pairs[2][1][2])
    IN  <<FSub(p2_img_vec[1], p1_img_vec[1]), FSub(p2_img_vec[2], p1_img_vec[2])>>

Degenerate(m, pairs) ==
    BelowMicro(ImgDelta(m, pairs)[1]) \/ BelowMicro(ImgDelta(m, pairs)[2])

\* a fit that takes the translation from the first image point as clicked,
\* not flipped
FittedUnflipped(m, pairs) ==
    LET real_dx == FSub(pairs[2][2][1], pairs[1][2][1])
        real_dy == FSub(pairs[2][2][2], pairs[1][2][2])
        scale_x == FDiv(real_dx, ImgDelta(m, pairs)[1])
        scale_y == FDiv(real_dy, ImgDelta(m, pairs)[2])
        rot == Affine(<<scale_x, scale_y>>, <<Zero, Zero>>, pairs[1][1])
    IN  [ rotation_scale |-> <<scale_x, scale_y>>,
          translation    |-> <<FSub(pairs[1][2][1], rot[1]), FSub(pairs[1][2][2], rot[2])>>,
          height         |-> FlipHeight(m),
          pairs          |-> pairs ]

\* the mapping that calibrate_mapping stores for accepted pairs; height and
\* pairs are history: the flip height and the pairs it was fitted with
Fitted(m, pairs) ==
    LET p1_img_vec == image_point_to_mapping_space(m, pairs[1][1][1], pairs[1][1][2])
        real_dx == FSub(pairs[2][2][1], pairs[1][2][1])
        real_dy == FSub(pairs[2][2][2], pairs[1][2][2])
        scale_x == FDiv(real_dx, ImgDelta(m, pairs)[1])
        scale_y == FDiv(real_dy, ImgDelta(m, pairs)[2])
        rot == Affine(<<scale_x, scale_y>>, <<Zero, Zero>>, p1_img_vec)
    IN  [ rotation_scale |-> <<scale_x, scale_y>>,
          translation    |-> <<FSub(pairs[1][2][1], rot[1]), FSub(pairs[1][2][2], rot[2])>>,
          height         |-> FlipHeight(m),
          pairs          |-> pairs ]

\* the point image_to_real_coordinates returns for a mapping
RealPoint(m, mm, img_x, img_y) ==
    Affine(mm.rotation_scale, mm.translation, image_point_to_mapping_space(m, img_x, img_y))

robot == <<conn, openHandles, lock, pose, robot_connected, rx, devq, wire,
           failed, script, sc, resp, result, op, pose0, last>>

\* update_frame, when the camera delivers a frame
update_frame ==
    /\ mapper' = update_transformed_view([mapper EXCEPT !.current_frame = TRUE])
    /\ UNCHANGED robot

\* detect_chessboard, when the chessboard is found; without a frame it
\* returns at once
detect_chessboard(d) ==
    /\ mapper.current_frame
    /\ mapper' = update_transformed_view(
                     calculate_transformation_matrix(
                         [mapper EXCEPT !.corners = Some(d), !.chessboard_found = TRUE], d))
    /\ UNCHANGED robot

\* detect_chessboard, when the chessboard is not found
DetectNotFound ==
    /\ mapper.current_frame
    /\ mapper' = [mapper EXCEPT !.chessboard_found = FALSE, !.corners = None]
    /\ UNCHANGED robot

\* detect_chessboard of src/SmartHand.py, when the chessboard is not found
LegacyDetectNotFound ==
    /\ mapper.current_frame
    /\ mapper' = [mapper EXCEPT !.chessboard_found = FALSE]
    /\ UNCHANGED robot

\* the user ticks or unticks "Transform Full Image"; no handler is connected
ToggleFullImage ==
    /\ mapper' = [mapper EXCEPT !.chk_full_image = ~mapper.chk_full_image]
    /\ UNCHANGED robot

\* the user types into the eight fields of the two calibration pairs
EnterPoints(texts) ==
    /\ \E f \in texts : mapper' = [mapper EXCEPT !.fields = f]
    /\ UNCHANGED robot

\* a fit that drops the mapping when it rejects the pairs
CalibrateDropsOnReject(m) ==
    IF ~Parses(m.fields)
    THEN [m EXCEPT !.mapping_matrix = None]
    ELSE LET pairs == PairsOf(m.fields)
             stored == [m EXCEPT !.calibration_points = pairs]
         IN  IF Degenerate(m, pairs)
             THEN [stored EXCEPT !.mapping_matrix = None]
             ELSE [stored EXCEPT !.mapping_matrix = Some(Fitted(m, pairs)),
                                 !.applied = None,
                                 !.real_point = None]

\* a fit that replaces the scale of the mapping in effect and keeps its
\* translation
CalibrateScaleOnly(m) ==
    IF ~Parses(m.fields)
    THEN m
    ELSE LET pairs == PairsOf(m.fields)
             stored == [m EXCEPT !.calibration_points = pairs]
             fit == Fitted(m, pairs)
         IN  IF Degenerate(m, pairs)
             THEN stored
             ELSE [stored EXCEPT !.mapping_matrix =
                                     IF m.mapping_matrix = None THEN Some(fit)
                                     ELSE Some([fit EXCEPT !.translation =
                                                   m.mapping_matrix[1].translation]),
                                 !.applied = None,
                                 !.real_point = None]

\* calibrate_mapping (the fit): float() of a field raises ValueError before
\* anything is assigned; the pairs are stored before the deltas are tested
CalibrateMapping(m) ==
    IF ~Parses(m.fields)
    THEN m
    ELSE LET pairs == PairsOf(m.fields)
             stored == [m EXCEPT !.calibration_points = pairs]
         IN  IF Degenerate(m, pairs)
             THEN stored
             ELSE [stored EXCEPT !.mapping_matrix = Some(Fitted(m, pairs)),
                                 !.applied = None,
                                 !.real_point = None]

calibrate_mapping ==
    /\ mapper' = CalibrateMapping(mapper)
    /\ UNCHANGED robot

\* image_to_real_coordinates (the apply) of an image point; applied records
\* the height it used, real_point the point it was asked and the one it returned
image_to_real_coordinates(points) ==
    /\ mapper.mapping_matrix # None
    /\ \E q \in points :
          mapper' = [mapper EXCEPT
                        !.applied = Some(FlipHeight(mapper)),
                        !.real_point =
                            Some([img  |-> q,
                                  real |-> RealPoint(mapper, mapper.mapping_matrix[1],
                                                     q[1], q[2])])]
    /\ UNCHANGED robot

\* save_calibration, with a file name chosen; height is history, the flip
\* height at the time of saving
save_calibration ==
    /\ mapper.mapping_matrix # None
    /\ mapper' = [mapper EXCEPT !.file =
                      Some([mapping_matrix        |-> mapper.mapping_matrix,
                            calibration_points    |-> mapper.calibration_points,
                            transformation_matrix |-> mapper.transformation_matrix,
                            height                |-> FlipHeight(mapper)])]
    /\ UNCHANGED robot

\* the fields after load_calibration wrote str() of the loaded pairs to them
Shown(pairs) ==
    << <<Some(pairs[1][1][1]), Some(pairs[1][1][2])>>,
       <<Some(pairs[1][2][1]), Some(pairs[1][2][2])>>,
       <<Some(pairs[2][1][1]), Some(pairs[2][1][2])>>,
       <<Some(pairs[2][2][1]), Some(pairs[2][2][2])>> >>

\* load_calibration, with the saved file chosen
load_calibration ==
    /\ mapper.file # None
    /\ LET data == mapper.file[1]
       IN  mapper' = [mapper EXCEPT
                         !.mapping_matrix = data.mapping_matrix,
                         !.calibration_points = data.calibration_points,
                         !.fields = IF Len(data.calibration_points) >= 2
                                    THEN Shown(data.calibration_points) ELSE @,
                         !.transformation_matrix = data.transformation_matrix \/ @,
                         !.applied = None,
                         !.real_point = None]
    /\ UNCHANGED robot

\* the application is closed and started again
Restart ==
    /\ mapper' = MapperInit(mapper.file)
    /\ UNCHANGED robot

----------------------------------------------------------------------------
(* Specifications *)

Init ==
    /\ conn = 0
    /\ openHandles = {}
    /\ lock = 0
    /\ pose = HomePosition
    /\ robot_connected = FALSE
    /\ rx = << >>
    /\ devq = << >>
    /\ wire = << >>
    /\ failed = NoFailure
    /\ script = [t \in Threads |-> << >>]
    /\ sc = [t \in Threads |-> "idle"]
    /\ resp = [t \in Threads |-> << >>]
    /\ result = [t \in Threads |-> "idle"]
    /\ op = [t \in Threads |-> [name |-> "none", a |-> << >>]]
    /\ pose0 = [t \in Threads |-> HomePosition]
    /\ last = [t \in Threads |-> "none"]
    /\ mapper = MapperInit(None)

\* The application: one foreground thread runs the touch procedures.
Main == {1}

Device ==
    \/ DeviceAck("ok")
    \/ DeviceAck("error")
    \/ DeviceSilent
    \/ DeviceReport

Next ==
    \/ \E t \in Main : SendCheck(t)
    \/ \E t \in Main : Acquire(t)
    \/ \E t \in Main : Drain(t)
    \/ \E t \in Main : Write(t)
    \/ \E t \in Main : ReadLine(t)
    \/ \E t \in Main : Timeout(t)
    \/ \E t \in Main : Fault(t)
    \/ \E t \in Main : Check(t)
    \/ \E t \in Main : SetMode(t)
    \/ \E t \in Main : UpdatePose(t)
    \/ \E t \in Main : Query(t)
    \/ \E t \in Main : LeaveTry(t)
    \/ \E t \in Main : SetFlag(t)
    \/ \E t \in Main : Return(t)
    \/ \E t \in Main : TouchSequence(t)
    \/ \E t \in Main : GotoTestPosition(t)
    \/ \E t \in Main : ConnectRobot(t, {"refused", "mismatch", "match"})
    \/ \E t \in Main : DisconnectRobot(t)
    \/ Device

Spec == Init /\ [][Next]_vars

\* A program that calls the methods of one RobotController one after another.
NextApi ==
    \/ \E t \in Main : SendCheck(t)
    \/ \E t \in Main : Acquire(t)
    \/ \E t \in Main : Drain(t)
    \/ \E t \in Main : Write(t)
    \/ \E t \in Main : ReadLine(t)
    \/ \E t \in Main : Timeout(t)
    \/ \E t \in Main : Fault(t)
    \/ \E t \in Main : Check(t)
    \/ \E t \in Main : SetMode(t)
    \/ \E t \in Main : ReraiseStep(t)
    \/ \E t \in Main : UpdatePose(t)
    \/ \E t \in Main : Query(t)
    \/ \E t \in Main : SkipQuery(t)
    \/ \E t \in Main : LeaveTry(t)
    \/ \E t \in Main : SetFlag(t)
    \/ \E t \in Main : CallHome(t)
    \/ \E t \in Main : CallMoveAbsolute(t)
    \/ \E t \in Main : CallMoveRelative(t)
    \/ \E t \in Main : CallLegacyMoveRelative(t)
    \/ \E t \in Main : CallDwell(t)
    \/ \E t \in Main : CallLegacyDwell(t)
    \/ \E t \in Main : CallGetPosition(t)
    \/ \E t \in Main : CallSendCommand(t, RawLines)
    \/ \E t \in Main : ConnectRobot(t, {"refused", "mismatch", "match"})
    \/ \E t \in Main : DisconnectRobot(t)
    \/ Device

SpecApi == Init /\ [][NextApi]_vars

\* Several threads call send_command on one RobotController.
NextConc ==
    \/ \E t \in Threads : SendCheck(t)
    \/ \E t \in Threads : Acquire(t)
    \/ \E t \in Threads : Drain(t)
    \/ \E t \in Threads : Write(t)
    \/ \E t \in Threads : ReadLine(t)
    \/ \E t \in Threads : Timeout(t)
    \/ \E t \in Threads : Fault(t)
    \/ \E t \in Main : SetMode(t)
    \/ \E t \in Main : LeaveTry(t)
    \/ \E t \in Threads : CallSendCommand(t, {<<Plain("G28"), TRUE>>})
    \/ \E t \in Main : Connect(t, {"match"}, << >>)
    \/ DeviceAck("ok")
    \/ DeviceAck("error")
    \/ DeviceSilent

SpecConc == Init /\ [][NextConc]_vars

----------------------------------------------------------------------------
(* Properties of the touch procedures, checked under Spec *)

IsPrefix(a, b) == Len(a) <= Len(b) /\ SubSeq(b, 1, Len(a)) = a

IsTouch(t) == op[t].name = "run_touch_sequence"

\* the motion commands among the lines written (M114 asks, it does not move)
Motion(w) == SelectSeq(w, LAMBDA c : c.g # "M114")

\* C1: when the third command of a touch sequence (the lowering move) gets no
\* answer before the timeout, the sequence returns failure with exactly the
\* two earlier moves written before it: no dwell and no lift is written after
\* it, and the try block is not completed.
C1_TimeoutEndsTouch ==
    \A t \in Main :
        (IsTouch(t) /\ failed = [at |-> 3, how |-> "timeout"]) =>
            /\ Len(wire) = 3
            /\ ~At(t, "catch")
            /\ ~Running(t) => result[t] = "false"

\* C2: in a touch sequence and in goto-test-position, the XY move (the second
\* line) is written only when the raise to the safe height before it was
\* acknowledged with ok.
C2_XYAfterRaiseAck ==
    [][\A t \in Main :
          (op[t].name \in {"run_touch_sequence", "goto_test_position"}
              /\ Len(wire) = 1 /\ Len(wire') = 2)
          => last[t] = "ok"]_vars

\* the five lines of a touch, from its arguments; coordinates carry three
\* decimals of a millimetre and the dwell whole milliseconds
TouchLines(a) ==
    LET mm(v) == Some(RoundTo(v, 10))
        z(v) == Line("G01", None, None, mm(v), Some(a[7]), None)
    IN  << z(a[6]),
           Line("G01", mm(a[1]), mm(a[2]), None, Some(a[7]), None),
           z(a[3] - a[4]),
           Line("G04", None, None, None, None, Some(RoundTo(a[5], 10) \div 10)),
           z(a[6]) >>

\* C3: the motion commands a touch sequence writes are, in this order, G01 Z
\* safeZ; G01 X Y target; G01 Z phoneZ - touchForce; G04 dwell; G01 Z safeZ:
\* at any moment a prefix of these five, and all five and nothing else once
\* the steps are through.
C3_FiveCommandsInOrder ==
    \A t \in Main :
        IsTouch(t) =>
            /\ IsPrefix(Motion(wire), TouchLines(op[t].a))
            /\ (At(t, "catch") \/ result[t] = "true")
                   => Motion(wire) = TouchLines(op[t].a)

\* a touch sequence all of whose five exchanges ended with ok has left the
\* try block behind it
C3_Witness ==
    \E t \in Main :
        IsTouch(t) /\ At(t, "catch") /\ failed = NoFailure /\ Len(wire) = 5

\* the pose after the first n steps of a touch with arguments a, begun at p
PoseAfter(p, a, n) ==
    << IF n >= 2 THEN a[1] ELSE p[1],
       IF n >= 2 THEN a[2] ELSE p[2],
       IF n = 0 THEN p[3] ELSE IF n \in {3, 4} THEN a[3] - a[4] ELSE a[6] >>

\* C4: when step k of a touch sequence fails, no line of a later step is
\* written, the try block is not completed, the sequence reports failure and
\* the pose is the one the steps 1..k-1 produce.
C4_FailedStepEndsTouch ==
    \A t \in Main :
        (IsTouch(t) /\ failed.at \in 1..5) =>
            /\ Len(wire) <= failed.at
            /\ ~At(t, "catch")
            /\ ~Running(t) =>
                   /\ result[t] = "false"
                   /\ pose = PoseAfter(pose0[t], op[t].a, failed.at - 1)

----------------------------------------------------------------------------
(* Properties of the controller methods, checked under SpecApi *)

\* thread t begins connect and the handshake matches
Connects(t) == ~Running(t) /\ result'[t] = "running" /\ op'[t].name = "connect"

\* C5: the tracked pose changes only in a step that follows a motion command
\* acknowledged with ok, or a position query that returned a parsable
\* position (or where connect resets it): after a timeout or an error line
\* the pose stays as it was.
C5_PoseOnlyAfterAck ==
    [][pose' # pose =>
          \E t \in Main :
              \/ /\ At(t, "setpose") \/ At(t, "addpose") \/ At(t, "homepose")
                 /\ last[t] = "ok"
              \/ At(t, "parsepos") /\ Reported(resp[t]) # None
              \/ Connects(t)]_vars

ModeLines(w) == SelectSeq(w, LAMBDA c : c.g \in {"G90", "G91"})

\* C6: once move_linear_relative has returned or raised, in either variant,
\* the last mode command it wrote is G90.
C6_AbsoluteModeRestored ==
    \A t \in Main :
        (op[t].name \in {"move_linear_relative", "legacy_move_linear_relative"}
            /\ ~Running(t))
        => LET m == ModeLines(wire)
           IN  m = << >> \/ m[Len(m)].g = "G90"

\* C8: every line collected as the response of a command was emitted by the
\* device in reply to that command, none in reply to an earlier one.
C8_OwnLinesOnly ==
    \A t \in Main : \A j \in 1..Len(resp[t]) : ~resp[t][j].old

RECURSIVE IsSubseq(_, _)
IsSubseq(a, b) ==
    IF a = << >> THEN TRUE
    ELSE IF b = << >> THEN FALSE
    ELSE IF Head(a) = Head(b) THEN IsSubseq(Tail(a), Tail(b))
    ELSE IsSubseq(a, Tail(b))

\* the lines an operation issues, in issue order
Issued(o) ==
    LET a == o.a
        M114 == Plain("M114")
    IN  CASE o.name = "home" -> << Plain("G28") >>
          [] o.name = "move_linear_absolute" ->
                << G01(a[1], a[2], a[3], FeedOf(a[4])) >>
          [] o.name = "move_linear_relative" ->
                << Plain("G91"), G01(a[1], a[2], a[3], FeedOf(a[4])), Plain("G90") >>
          [] o.name = "legacy_move_linear_relative" ->
                << Plain("G91"),
                   G01(NonZero(a[1]), NonZero(a[2]), NonZero(a[3]), FeedOf(a[4])),
                   Plain("G90") >>
          [] o.name = "dwell" -> << G04(DwellMs(a[1])) >>
          [] o.name = "legacy_dwell" -> << G4(LegacyDwellMs(a[1])) >>
          [] o.name = "get_position" -> << M114 >>
          [] o.name = "send_command" -> << a[1] >>
          [] o.name = "connect" -> << Plain("G90"), M114, M114 >>
          [] OTHER -> << >>

\* the ways the exchange of a command ends that the claim names
Met == {"none", "ok", "error", "timeout", "noack"}

\* C9 as stated: the lines are written in issue order, and a line is written
\* only when the exchange of the line before it ended with an ok or error
\* line read, with the timeout, or without waiting (a no-ack command).
C9_WrittenAfterCriteriaMet ==
    \A t \in Main :
        /\ IsSubseq(wire, Issued(op[t]))
        /\ InSend(t, "write") => last[t] \in Met

\* C9, amended: the lines are written in issue order, and a line is written
\* only when the exchange of the line before it is over: it ended with an ok
\* or error line read, with the timeout, without waiting, or with an
\* exception raised by the serial port.  An exchange is open only while its
\* caller reads.
C9_WrittenAfterExchangeOver ==
    \A t \in Main :
        /\ IsSubseq(wire, Issued(op[t]))
        /\ InSend(t, "write") => last[t] \in Met \cup {"ioerr"}
        /\ last[t] = "pending" => InSend(t, "read")

\* the restoring G90 of a relative move is about to be written after the
\* move before it timed out
C9_Witness ==
    \E t \in Main :
        InSend(t, "write") /\ Len(wire) = 2 /\ last[t] = "timeout"

MotionOps ==
    {"home", "move_linear_absolute", "move_linear_relative", "dwell", "send_command"}

\* C10 as stated: while disconnected, home, move_linear_absolute,
\* move_linear_relative, dwell (whatever the duration) and send_command raise
\* the not-connected error at once, write nothing and leave the pose as it was.
C10_DisconnectedFailsFast ==
    \A t \in Main :
        (op[t].name \in MotionOps /\ ~is_connected) =>
            /\ wire = << >> /\ pose = pose0[t] /\ sc[t] = "idle"
            /\ ~Running(t) => result[t] = "RuntimeError"

\* C10, amended: while disconnected, home, move_linear_absolute,
\* move_linear_relative, send_command and dwell with a positive duration raise
\* the not-connected error at once; dwell with a duration <= 0 returns
\* normally; all of them write nothing and leave the pose as it was.
C10_DisconnectedWritesNothing ==
    \A t \in Main :
        (op[t].name \in MotionOps /\ ~is_connected) =>
            /\ wire = << >> /\ pose = pose0[t] /\ sc[t] = "idle"
            /\ ~Running(t) =>
                   result[t] = IF op[t].name = "dwell" /\ op[t].a[1] <= 0
                               THEN "ok" ELSE "RuntimeError"

\* dwell with a positive duration has raised not-connected
C10_Witness ==
    \E t \in Main :
        /\ op[t].name = "dwell" /\ op[t].a[1] > 0
        /\ ~is_connected /\ result[t] = "RuntimeError"

----------------------------------------------------------------------------
(* Properties of concurrent send_command calls, checked under SpecConc *)

\* thread t is between the drain and the end of the response collection
InExchange(t) == At(t, "send") /\ sc[t] \in {"drain", "write", "read"}

\* C7: at most one send_command call at a time is between its drain and the
\* end of its response collection, and it holds the lock.
C7_OneExchangeAtATime ==
    /\ Cardinality({t \in Threads : InExchange(t)}) <= 1
    /\ \A t \in Threads : InExchange(t) => lock = t

\* one caller reads its response while another waits for the lock
C7_Witness ==
    \E t, u \in Threads :
        t # u /\ InSend(t, "read") /\ InSend(u, "acquire")

----------------------------------------------------------------------------
(* Connecting and disconnecting, checked under SpecConn *)

\* a disconnect that closes and forgets the handle under the exchange lock
DisconnectUnderLock(t) ==
    /\ lock = 0
    /\ conn' = 0
    /\ openHandles' = openHandles \ {conn}
    /\ rx' = << >>
    /\ Begin(t, "disconnect", << >>, << >>)
    /\ UNCHANGED <<lock, pose, robot_connected>>

\* RobotController.disconnect of src/smarthand/robot.py: the handle is closed
\* and forgotten, the tracked pose is left as it is
Disconnect(t) ==
    /\ conn' = 0
    /\ openHandles' = openHandles \ {conn}
    /\ rx' = << >>
    /\ Begin(t, "disconnect", << >>, << >>)
    /\ UNCHANGED <<lock, pose, robot_connected>>

\* RobotController.disconnect of src/SmartHand.py: if self.conn: close it,
\* and in the finally clause forget it and reset the tracked pose
LegacyDisconnect(t) ==
    /\ conn' = 0
    /\ openHandles' = openHandles \ {conn}
    /\ pose' = IF conn # 0 THEN HomePosition ELSE pose
    /\ rx' = << >>
    /\ Begin(t, "legacy_disconnect", << >>, << >>)
    /\ UNCHANGED <<lock, robot_connected>>

\* A Serial object nothing refers to any more (the local `conn' of a connect
\* whose handshake raised) is closed when the interpreter collects it: at
\* once, later or never.
Finalize ==
    /\ UNCHANGED mapper
    /\ \E h \in openHandles \ {conn} : openHandles' = openHandles \ {h}
    /\ UNCHANGED <<conn, lock, pose, robot_connected, rx, devq, wire, failed,
                   script, sc, resp, result, op, pose0, last>>

HandshakeOutcomes == {"refused", "mismatch", "ioerror", "match"}

\* A program that connects, disconnects and moves with one RobotController.
NextConn ==
    \/ \E t \in Main : SendCheck(t)
    \/ \E t \in Main : Acquire(t)
    \/ \E t \in Main : Drain(t)
    \/ \E t \in Main : Write(t)
    \/ \E t \in Main : ReadLine(t)
    \/ \E t \in Main : Timeout(t)
    \/ \E t \in Main : Fault(t)
    \/ \E t \in Main : Check(t)
    \/ \E t \in Main : SetMode(t)
    \/ \E t \in Main : UpdatePose(t)
    \/ \E t \in Main : LeaveTry(t)
    \/ \E t \in Main : Return(t)
    \/ \E t \in Main : CallMoveAbsolute(t)
    \/ \E t \in Main : Connect(t, HandshakeOutcomes, << >>)
    \/ \E t \in Main : Disconnect(t)
    \/ \E t \in Main : LegacyDisconnect(t)
    \/ Finalize
    \/ DeviceAck("ok")
    \/ DeviceSilent

SpecConn == Init /\ [][NextConn]_vars

\* C11: connect returns success only when the handshake answer was the
\* expected one, and when it returns failure the controller is not connected
\* and no handle it opened is open.
C11_FailedConnectClosesPort ==
    \A t \in Main :
        (op[t].name = "connect" /\ ~Running(t)) =>
            /\ result[t] = "ok" => op[t].a[1] = "match"
            /\ result[t] # "ok" => ~is_connected /\ openHandles = {}

C13_PoseResetOnConnectDisconnect ==
    \A t \in Main :
        (op[t].name \in {"connect", "disconnect", "legacy_disconnect"}
            /\ result[t] = "ok")
        => pose = HomePosition

----------------------------------------------------------------------------
(* Further properties of the controller methods, checked under SpecApi *)

\* C14: when home() has returned with its G28 acknowledged, the tracked pose
\* is (0, 0, homeZ) whatever it was before the call (so also when the call
\* before was a home()), and the only line written is G28: no position query.
C14_HomeIdempotent ==
    \A t \in Main :
        (op[t].name = "home" /\ result[t] = "ok" /\ last[t] = "ok") =>
            /\ pose = HomePosition
            /\ wire = << Plain("G28") >>

\* home() returned, acknowledged, after starting away from the origin
C14_Witness ==
    \E t \in Main :
        /\ op[t].name = "home" /\ result[t] = "ok" /\ last[t] = "ok"
        /\ pose0[t] # HomePosition

\* C17: move_linear_absolute writes at most one line, a G01 that holds
\* exactly the axes given (three decimals) and the feedrate; when it has
\* returned with the line acknowledged, exactly that line was written and each
\* pose component is the commanded value if its axis was given and what it
\* was before if not.
C17_MoveAbsoluteFrame ==
    \A t \in Main :
        op[t].name = "move_linear_absolute" =>
            LET a == op[t].a
                axis(k) == IF a[k] = None THEN None ELSE Some(RoundTo(a[k][1], 10))
                feed == IF a[4] = None THEN DefaultFeedrate ELSE a[4][1]
            IN  /\ Len(wire) <= 1
                /\ \A j \in 1..Len(wire) :
                       wire[j] = Line("G01", axis(1), axis(2), axis(3), Some(feed), None)
                /\ (result[t] = "ok" /\ last[t] = "ok") =>
                       /\ Len(wire) = 1
                       /\ \A k \in 1..3 :
                              pose[k] = IF a[k] = None THEN pose0[t][k] ELSE a[k][1]

\* an acknowledged XY move made at a height other than the home height
C17_Witness ==
    \E t \in Main :
        /\ op[t].name = "move_linear_absolute"
        /\ result[t] = "ok" /\ last[t] = "ok"
        /\ op[t].a[3] = None /\ pose[3] # HomeZ /\ pose # pose0[t]

\* C19: every dwell line written (G04 or G4) carries P with at least one
\* millisecond.
C19_DwellAtLeastOneMs ==
    \A j \in 1..Len(wire) :
        wire[j].g \in {"G04", "G4"} => wire[j].p # None /\ wire[j].p[1] >= 1

----------------------------------------------------------------------------
(* Reading the answer of one command, checked under SpecRead *)

\* what a line that is neither ok nor error may hold: no position, or one
Chatter == {None} \cup {Some(r) : r \in Reports \cup {<<20000, 30000, -3000000>>}}

\* the device sends a line that starts with neither ok nor error for the
\* oldest unanswered command
DeviceLine ==
    /\ UNCHANGED mapper
    /\ devq # << >>
    /\ Len(rx) < MaxRx
    /\ is_connected
    /\ Head(devq).n < MaxNoise
    /\ \E c \in Chatter :
          rx' = Append(rx, [Reply("info", c) EXCEPT !.old = Head(devq).old])
    /\ devq' = [devq EXCEPT ![1].n = @ + 1]
    /\ UNCHANGED <<conn, openHandles, lock, pose, robot_connected, wire,
                   failed, script, sc, resp, result, op, pose0, last>>

\* the device answers the oldest unanswered command and sends one more line
\* right behind the answer
DeviceAckThen(k) ==
    /\ UNCHANGED mapper
    /\ devq # << >>
    /\ Len(rx) + 2 <= MaxRx
    /\ is_connected
    /\ rx' = rx \o << [Reply(k, None) EXCEPT !.old = Head(devq).old],
                      [Reply("info", None) EXCEPT !.old = Head(devq).old] >>
    /\ devq' = Tail(devq)
    /\ UNCHANGED <<conn, openHandles, lock, pose, robot_connected, wire,
                   failed, script, sc, resp, result, op, pose0, last>>

\* A program that sends single commands and asks for the position.
NextRead ==
    \/ \E t \in Main : SendCheck(t)
    \/ \E t \in Main : Acquire(t)
    \/ \E t \in Main : Drain(t)
    \/ \E t \in Main : Write(t)
    \/ \E t \in Main : ReadLine(t)
    \/ \E t \in Main : Timeout(t)
    \/ \E t \in Main : Fault(t)
    \/ \E t \in Main : SetMode(t)
    \/ \E t \in Main : LeaveTry(t)
    \/ \E t \in Main : UpdatePose(t)
    \/ \E t \in Main : Query(t)
    \/ \E t \in Main : SkipQuery(t)
    \/ \E t \in Main : CallSendCommand(t, {<<Plain("G28"), TRUE>>})
    \/ \E t \in Main : CallGetPosition(t)
    \/ \E t \in Main : Connect(t, {"match"}, << >>)
    \/ \E t \in Main : Disconnect(t)
    \/ DeviceLine
    \/ DeviceAck("ok")
    \/ DeviceAck("error")
    \/ DeviceAckThen("ok")
    \/ DeviceSilent

\* Every pass of the read loop ends within the read timeout of the port (2 s,
\* set when the port is opened) and tests the deadline again: a wait whose
\* deadline has passed does end.
SpecRead == Init /\ [][NextRead]_vars /\ \A t \in Main : WF_vars(Timeout(t))

\* C15: the list a send_command collects holds no line that starts with ok
\* or error except as its last entry, the call reads on only while it has
\* collected none, and every line taken from the input buffer by a reading
\* call is appended to its list: collection stops at the first ok or error
\* line and the lines behind it stay in the buffer.
C15_CollectsUpToFirstTerminal ==
    /\ [](\A t \in Main :
            /\ \A j \in 1..(Len(resp[t]) - 1) : ~Terminal(resp[t][j])
            /\ InSend(t, "read") => \A j \in 1..Len(resp[t]) : ~Terminal(resp[t][j])
            /\ (op[t].name = "send_command" /\ result[t] = "ok"
                   /\ last[t] \in {"ok", "error"})
               => resp[t] # << >> /\ Terminal(resp[t][Len(resp[t])]))
    /\ [][\A t \in Main :
            /\ (resp'[t] # resp[t] /\ resp'[t] # << >>) =>
                   /\ InSend(t, "read") /\ rx # << >>
                   /\ resp'[t] = Append(resp[t], Head(rx))
                   /\ rx' = Tail(rx)
            /\ (InSend(t, "read") /\ rx # << >> /\ rx' = Tail(rx)) =>
                   resp'[t] = Append(resp[t], Head(rx))]_vars

\* two lines that are neither ok nor error, then ok, were collected and a
\* further line is still in the input buffer
C15_Witness ==
    \E t \in Main :
        /\ op[t].name = "send_command" /\ result[t] = "ok"
        /\ Len(resp[t]) = 3
        /\ ~Terminal(resp[t][1]) /\ ~Terminal(resp[t][2]) /\ resp[t][3].k = "ok"
        /\ rx # << >>

\* C16: a call that waits for the acknowledgment stops waiting in the end;
\* when it stops because the deadline has passed it returns what it has
\* collected, raises nothing and releases the lock.
C16_WaitEnds ==
    /\ \A t \in Main : InSend(t, "read") ~> ~InSend(t, "read")
    /\ [][\A t \in Main :
            (InSend(t, "read") /\ last'[t] = "timeout") =>
                /\ resp'[t] = resp[t]
                /\ lock' = 0
                /\ sc'[t] = "idle"
                /\ result'[t] \in {"ok", "running"}]_vars

\* a send_command has returned on the deadline with one line that is neither
\* ok nor error
C16_Witness ==
    \E t \in Main :
        /\ op[t].name = "send_command" /\ result[t] = "ok"
        /\ last[t] = "timeout" /\ lock = 0
        /\ Len(resp[t]) = 1 /\ ~Terminal(resp[t][1])

\* the position of the first line of the list that holds one, else p
FirstPosition(lines, p) ==
    IF \E j \in 1..Len(lines) : lines[j].pos # None
    THEN LET j == CHOOSE j \in 1..Len(lines) :
                     /\ lines[j].pos # None
                     /\ \A i \in 1..(j - 1) : lines[i].pos = None
         IN  lines[j].pos[1]
    ELSE p

----------------------------------------------------------------------------
(* The mapping, checked under SpecMap *)

\* what the user types and asks under SpecMap: one pair of calibration pairs
\* and one query point
MapTexts == { Typed(<<100, 100>>, <<-20, 30>>, <<350, 250>>, <<50, -40>>) }

MapQueries == { <<FromInt(200), FromInt(150)>> }

NextMap ==
    \/ update_frame
    \/ \E d \in Detections : detect_chessboard(d)
    \/ ToggleFullImage
    \/ EnterPoints(MapTexts)
    \/ calibrate_mapping
    \/ image_to_real_coordinates(MapQueries)
    \/ save_calibration
    \/ load_calibration
    \/ Restart

SpecMap == Init /\ [][NextMap]_vars

\* C20: every apply (image_to_real_coordinates) made after a fit flips Y with
\* the height that image_point_to_mapping_space used during that fit, whatever
\* re-detections of the chessboard, togglings of the full-image transform, new
\* camera frames and loadings of a calibration happened in between.
C20_ApplyUsesFitHeight ==
    mapper.applied # None => mapper.applied[1] = mapper.mapping_matrix[1].height

----------------------------------------------------------------------------
(* The calibration, checked under SpecCal: the view changes by one          *)
(* detection only, the user types valid, degenerate and unparsable pairs.   *)

CalDetections ==
    { [chess_width |-> 400, chess_height |-> 300, raw_width |-> 1000, raw_height |-> 700] }

PairsA == Typed(<<100, 100>>, <<-20, 30>>, <<350, 250>>, <<50, -40>>)
PairsB == Typed(<<100, 100>>, <<-5, 10>>, <<110, 300>>, <<7, 0>>)

CalTexts ==
    { PairsA, PairsB,
      Typed(<<100, 100>>, <<-20, 30>>, <<100, 300>>, <<50, -40>>),
      [PairsA EXCEPT ![3] = <<None, Some(FromInt(250))>>] }

NextCal ==
    \/ update_frame
    \/ \E d \in CalDetections : detect_chessboard(d)
    \/ DetectNotFound
    \/ LegacyDetectNotFound
    \/ EnterPoints(CalTexts)
    \/ calibrate_mapping
    \/ image_to_real_coordinates(MapQueries)
    \/ save_calibration
    \/ load_calibration
    \/ Restart
    \/ \E t \in Main : ConnectRobot(t, {"refused"})
    \/ \E t \in Main : Return(t)
    \/ \E t \in Main : Disconnect(t)

SpecCal == Init /\ [][NextCal]_vars

\* the fit rejects what is in the fields
Rejected(m) == ~Parses(m.fields) \/ Degenerate(m, PairsOf(m.fields))

\* C21: a fit that is rejected, for degenerate axes or for a field that does
\* not parse, leaves the mapping as it was: the same scale and translation,
\* or still absent.
C21_RejectedFitKeepsMapping ==
    [][calibrate_mapping /\ Rejected(mapper)
          => mapper'.mapping_matrix = mapper.mapping_matrix]_vars

\* a fit was rejected for degenerate axes while a mapping was in effect
C21_Witness ==
    /\ mapper.mapping_matrix # None
    /\ mapper.calibration_points # mapper.mapping_matrix[1].pairs
    /\ Rejected(mapper)

----------------------------------------------------------------------------
(* The fit and the apply as functions of the calibration pairs, checked     *)
(* under SpecFit: every session makes one fit, of pairs drawn from          *)
(* FitTexts, and applies the mapping to the image points it was fitted      *)
(* with.  The frame height is the initial one throughout.                   *)

\* image points as typed: integers, and one x that is 2^-21 (below 1e-6)
TypedPoint(pt) == <<Some(FromInt(pt[1])), Some(FromInt(pt[2]))>>

FitFirstPoints == { TypedPoint(<<100, 100>>), TypedPoint(<<0, 100>>) }

FitSecondPoints ==
    { TypedPoint(<<110, 300>>), TypedPoint(<<350, 250>>), TypedPoint(<<103, 400>>),
      TypedPoint(<<100, 300>>), TypedPoint(<<110, 100>>),
      <<Some(Fl(1, -21)), Some(FromInt(300))>> }

FitTexts ==
    { <<p1, r1, p2, r2>> :
        p1 \in FitFirstPoints,
        r1 \in { TypedPoint(<<-20, 30>>), TypedPoint(<<7, 0>>) },
        p2 \in FitSecondPoints,
        r2 \in { TypedPoint(<<-5, 10>>), TypedPoint(<<50, -40>>) } }

\* the image points of the pairs the mapping in effect was fitted with
Nodes == { mapper.mapping_matrix[1].pairs[i][1] : i \in 1..2 }

NextFit ==
    \/ mapper.mapping_matrix = None /\ EnterPoints(FitTexts)
    \/ calibrate_mapping
    \/ image_to_real_coordinates(Nodes)
    \/ Restart

SpecFit == Init /\ [][NextFit]_vars

\* the step installs the mapping fitted to the pairs in the fields
AcceptedStep == mapper'.mapping_matrix = Some(Fitted(mapper, PairsOf(mapper.fields)))

\* the step leaves the mapping as it was
RejectedStep == mapper'.mapping_matrix = mapper.mapping_matrix

\* the two image points in the fields share x or share y
SameAxis(fields) == fields[1][1] = fields[3][1] \/ fields[1][2] = fields[3][2]

\* abs(a) >= 1e-6
AtLeastMicro(a) ==
    a.m # 0 /\ (a.e >= 0 \/ (-a.e <= 30 /\ Abs(a.m) * 1000000 >= 2^(-a.e)))

\* the differences of the two image points in the fields, in x and in y
DeltaX(fields) == FSub(fields[3][1][1], fields[1][1][1])
DeltaY(fields) == FSub(fields[3][2][1], fields[1][2][1])

AppliedAtNode(i) ==
    /\ mapper.mapping_matrix # None
    /\ mapper.real_point # None
    /\ mapper.real_point[1].img = mapper.mapping_matrix[1].pairs[i][1]
    /\ FlipHeight(mapper) = mapper.mapping_matrix[1].height

\* C23 as stated: the mapping fitted to two accepted pairs, applied to the
\* image point of either pair with the frame height unchanged since the fit,
\* returns exactly the robot point of that pair.
C23_ExactAtNodes ==
    \A i \in 1..2 :
        AppliedAtNode(i) => mapper.real_point[1].real = mapper.mapping_matrix[1].pairs[i][2]

FAbs(a) == [a EXCEPT !.m = Abs(a.m)]

\* floor(abs(a) * 2^j)
Units(a, j) ==
    IF a.e + j >= 0 THEN Abs(a.m) * 2^(a.e + j)
    ELSE IF -(a.e + j) > 30 THEN 0
    ELSE Abs(a.m) \div 2^(-(a.e + j))

\* abs(g - r) <= 4 * 2^-MantissaBits * t: g is r within four unit roundoffs of t
Within(g, r, t) ==
    LET k == Max(0, Max(-g.e, -r.e))
    IN  Abs(g.m * 2^(g.e + k) - r.m * 2^(r.e + k)) <= Units(t, k - MantissaBits + 2)

\* the magnitude of the terms the fit and the apply add up on axis k:
\* abs(scale) * (abs(c1) + abs(c2)) + abs(r1) + abs(r2), c being the image
\* coordinates in mapping space and r the robot coordinates of the two pairs
Magnitude(k) ==
    LET mm == mapper.mapping_matrix[1]
        c1 == image_point_to_mapping_space(mapper, mm.pairs[1][1][1], mm.pairs[1][1][2])[k]
        c2 == image_point_to_mapping_space(mapper, mm.pairs[2][1][1], mm.pairs[2][1][2])[k]
    IN  FAdd(FMul(FAbs(mm.rotation_scale[k]), FAdd(FAbs(c1), FAbs(c2))),
             FAdd(FAbs(mm.pairs[1][2][k]), FAbs(mm.pairs[2][2][k])))

\* C23, amended: the mapping fitted to two accepted pairs, applied to the
\* image point of either pair with the frame height unchanged since the fit,
\* returns the robot point of that pair within floating-point tolerance: on
\* each axis within four unit roundoffs of the magnitude of the terms added.
C23_NearAtNodes ==
    \A i \in 1..2 :
        AppliedAtNode(i) =>
            \A k \in 1..2 :
                Within(mapper.real_point[1].real[k],
                       mapper.mapping_matrix[1].pairs[i][2][k], Magnitude(k))

\* the apply at a calibration point returned a point that is not the robot
\* point of the pair
C23_Witness ==
    \E i \in 1..2 :
        /\ AppliedAtNode(i)
        /\ mapper.real_point[1].real # mapper.mapping_matrix[1].pairs[i][2]

----------------------------------------------------------------------------
(* Further properties of the calibration, checked under SpecCal *)

\* C27: a detection attempt that finds no pattern changes no state: the
\* stored corners, the detected flag, the transformation matrix and its
\* output size are after the attempt what they were before it.
C27_FailedDetectionChangesNothing ==
    [][DetectNotFound \/ LegacyDetectNotFound
          => /\ mapper'.corners = mapper.corners
             /\ mapper'.chessboard_found = mapper.chessboard_found
             /\ mapper'.transformation_matrix = mapper.transformation_matrix
             /\ mapper'.transformed_size = mapper.transformed_size]_vars

\* scale and translation of mapping mm are those of one fit: of its pairs,
\* at its flip height
FromOneFit(mm) ==
    LET at == [transformed_frame |-> None, transformed_size |-> <<0, mm.height>>]
        fit == Fitted(at, mm.pairs)
    IN  mm.rotation_scale = fit.rotation_scale /\ mm.translation = fit.translation

\* C25: within a session of the application the mapping, once it exists
\* after a fit or a load, never becomes absent again, whatever rejected fits,
\* detections that fail or succeed, connects and disconnects follow; and a
\* re-fit replaces scale and translation in one step, so the mapping always
\* holds the scale and the translation of one and the same fit.
C25_MappingOneWay ==
    /\ [][(mapper.mapping_matrix # None /\ ~Restart) => mapper'.mapping_matrix # None]_vars
    /\ [](mapper.mapping_matrix # None => FromOneFit(mapper.mapping_matrix[1]))

\* a mapping was saved, another fit replaced it, and a fit was rejected
\* after that
C25_Witness ==
    /\ mapper.mapping_matrix # None
    /\ mapper.file # None
    /\ mapper.file[1].mapping_matrix[1].pairs # mapper.mapping_matrix[1].pairs
    /\ mapper.calibration_points # mapper.mapping_matrix[1].pairs

\* C28: whenever a mapping exists, the stored calibration pairs, which
\* save_calibration persists with it, are the two pairs the mapping in effect
\* was fitted with, or the pairs loaded together with it; a rejected fit does
\* not replace the stored pairs while the old mapping stays.
C28_PairsBelongToMapping ==
    mapper.mapping_matrix # None =>
        \/ mapper.calibration_points = mapper.mapping_matrix[1].pairs
        \/ /\ mapper.file # None
           /\ mapper.mapping_matrix = mapper.file[1].mapping_matrix
           /\ mapper.calibration_points = mapper.file[1].calibration_points

----------------------------------------------------------------------------
(* Saving and loading, checked under SpecMap *)

\* the mapper as far as the flip height goes, at height h
AtHeight(h) == [transformed_frame |-> None, transformed_size |-> <<0, h>>]

\* C26: loading a saved calibration, possibly in a fresh session without a
\* fit, leaves the mapper with the saved scale, translation and calibration
\* pairs, and the apply then returns for every query point the robot point
\* it returned at the time of saving.
C26_LoadRestoresApply ==
    [][load_calibration =>
          LET data == mapper.file[1]
          IN  /\ mapper'.mapping_matrix = data.mapping_matrix
              /\ mapper'.calibration_points = data.calibration_points
              /\ \A q \in MapQueries :
                    RealPoint(mapper', data.mapping_matrix[1], q[1], q[2])
                      = RealPoint(AtHeight(data.height), data.mapping_matrix[1], q[1], q[2])]_vars

----------------------------------------------------------------------------
(* Disconnecting under a call in progress, checked under SpecRace *)

NextRace ==
    \/ \E t \in Main : SendCheck(t)
    \/ \E t \in Main : Acquire(t)
    \/ \E t \in Main : Drain(t)
    \/ \E t \in Main : Write(t)
    \/ \E t \in Main : ReadLine(t)
    \/ \E t \in Main : Timeout(t)
    \/ \E t \in Main : Fault(t)
    \/ \E t \in Main : SetMode(t)
    \/ \E t \in Main : LeaveTry(t)
    \/ \E t \in Main : CallSendCommand(t, RawLines)
    \/ \E t \in Main : Connect(t, {"match"}, << >>)
    \/ \E t \in Threads \ Main : Disconnect(t)
    \/ DeviceAck("ok")

SpecRace == Init /\ [][NextRace]_vars

\* past the connected-check of send_command and not yet out of the exchange
PastCheck(t) == At(t, "send") /\ sc[t] \in {"acquire", "drain", "write", "read"}

\* C29: disconnect does not take the exchange lock, and the connected-check
\* of send_command is made before the lock is acquired: whenever one thread
\* is between its connected-check and the end of its exchange, a disconnect
\* by another thread can run at once, and what it does is to clear the
\* handle and leave the lock and the first thread where they are.
C29_DisconnectNeverWaits ==
    /\ [](\A t, u \in Threads :
            (t # u /\ PastCheck(t) /\ ~Running(u)) => ENABLED Disconnect(u))
    /\ [][\A t, u \in Threads :
            (t # u /\ PastCheck(t) /\ Disconnect(u)) =>
                /\ ~is_connected'
                /\ lock' = lock
                /\ PastCheck(t)' /\ sc'[t] = sc[t]]_vars

\* the handle is gone while a thread holds the lock inside its exchange
C29_Witness ==
    /\ ~is_connected
    /\ \E t, u \in Threads :
          /\ t # u /\ op[u].name = "disconnect"
          /\ InExchange(t) /\ lock = t

----------------------------------------------------------------------------
(* Touching a point of the view *)

\* image_to_real_coordinates: no point while there is no mapping
ImageToReal(m, img_x, img_y) ==
    IF m.mapping_matrix = None
    THEN None
    ELSE Some(RealPoint(m, m.mapping_matrix[1], img_x, img_y))

\* history of a call of image_to_real_coordinates for the point q
Applied(m, q) ==
    IF ImageToReal(m, q[1], q[2]) = None
    THEN [m EXCEPT !.real_point = None]
    ELSE [m EXCEPT !.applied = Some(FlipHeight(m)),
                   !.real_point = Some([img |-> q, real |-> ImageToReal(m, q[1], q[2])[1]])]

\* n / d to the nearest integer, ties to even
Nearest(n, d) ==
    LET a == Abs(n)
        q == a \div d
        r == a % d
        k == IF 2 * r > d \/ (2 * r = d /\ q % 2 = 1) THEN q + 1 ELSE q
    IN  IF n < 0 THEN -k ELSE k

\* a coordinate in millimetres as the controller's procedures take it here,
\* in units of 0.0001 mm
InUnits(a) ==
    IF a.e >= 0 THEN a.m * 2^a.e * 10000
    ELSE IF -a.e > 30 THEN 0
    ELSE Nearest(a.m * 10000, 2^(-a.e))

\* str() of the two integers of a clicked image point, as float() reads it
TextOf(q) == <<Some(FromInt(q[1])), Some(FromInt(q[2]))>>

ParsesPoint(text) == text[1] # None /\ text[2] # None

PointOf(text) == <<text[1][1], text[2][1]>>

\* calculate_test_coordinates: the result label; a text that does not parse
\* is passed over in silence
calculate_test_coordinates(m) ==
    IF ~ParsesPoint(m.test_input) THEN m
    ELSE IF m.mapping_matrix # None THEN Applied(m, PointOf(m.test_input))
    ELSE m

\* test_mapping_point
test_mapping_point(m) ==
    IF m.mapping_matrix = None THEN m
    ELSE IF ~ParsesPoint(m.calib_test) THEN m
    ELSE Applied(m, PointOf(m.calib_test))

\* a check box that can be ticked whatever the state of the application
ToggleUnguarded(m, connected) ==
    [m EXCEPT !.chk_click_to_touch = ~@, !.click_mode = "none"]

\* toggle_click_to_touch, the state being the opposite of what the box showed
toggle_click_to_touch(m, connected) ==
    IF ~m.chk_click_to_touch
    THEN IF m.mapping_matrix = None \/ ~connected
         THEN m
         ELSE [m EXCEPT !.chk_click_to_touch = TRUE, !.click_mode = "none"]
    ELSE [m EXCEPT !.chk_click_to_touch = FALSE, !.click_mode = "none"]

\* the selection branches of on_transformed_click
Selected(m, q) ==
    LET done(n) == [n EXCEPT !.click_mode = "none"]
    IN  CASE m.click_mode = "point1" -> done([m EXCEPT !.fields[1] = TextOf(q)])
          [] m.click_mode = "point2" -> done([m EXCEPT !.fields[3] = TextOf(q)])
          [] m.click_mode = "test" ->
                done(calculate_test_coordinates([m EXCEPT !.test_input = TextOf(q)]))
          [] m.click_mode = "calib_test" ->
                done(test_mapping_point([m EXCEPT !.calib_test = TextOf(q)]))

\* the point handle_click_to_touch sends the robot to, None when it returns
\* before run_touch_sequence
ClickTarget(m, connected, q) ==
    IF ~m.chk_click_to_touch THEN None
    ELSE IF m.mapping_matrix = None THEN None
    ELSE IF ~connected THEN None
    ELSE ImageToReal(m, FromInt(q[1]), FromInt(q[2]))

\* a test touch that does not ask whether there is a mapping
TestTargetUnchecked(m, connected) ==
    IF ~connected THEN None
    ELSE IF ~ParsesPoint(m.test_input) THEN None
    ELSE IF m.mapping_matrix = None THEN Some(PointOf(m.test_input))
    ELSE ImageToReal(m, PointOf(m.test_input)[1], PointOf(m.test_input)[2])

\* the point execute_test_touch and goto_test_position send the robot to,
\* None when they return after a warning
TestTarget(m, connected) ==
    IF ~connected THEN None
    ELSE IF m.mapping_matrix = None THEN None
    ELSE IF ~ParsesPoint(m.test_input) THEN None
    ELSE ImageToReal(m, PointOf(m.test_input)[1], PointOf(m.test_input)[2])

\* a handler that changes its view state to m and calls the controller
CallWith(t, m, name, args, scr) ==
    /\ mapper' = m
    /\ BeginOp(t, name, args, scr)
    /\ rx' = Stale(rx)
    /\ UNCHANGED <<conn, openHandles, lock, pose, robot_connected>>

HoldTimes == {100}

\* the handlers run on the one thread of the event loop, one at a time
Idle == \A t \in Main : ~Running(t)

\* enable_point1_selection, enable_point2_selection, enable_test_selection,
\* enable_calibration_test_selection
EnableSelection(modes) ==
    /\ Idle
    /\ mapper.transformed_frame # None
    /\ \E mode \in modes : mapper' = [mapper EXCEPT !.click_mode = mode]
    /\ UNCHANGED robot

\* on_crop_button_clicked -> set_crop_mode
on_crop_button_clicked ==
    /\ Idle
    /\ IF mapper.crop_mode
       THEN mapper' = [mapper EXCEPT !.crop_mode = FALSE]
       ELSE /\ mapper.transformed_frame # None
            /\ mapper' = [mapper EXCEPT !.crop_mode = TRUE, !.click_mode = "none"]
    /\ UNCHANGED robot

\* the user ticks or unticks "Click to Touch"
ToggleClickToTouch ==
    /\ Idle
    /\ mapper' = toggle_click_to_touch(mapper, robot_connected)
    /\ UNCHANGED robot

\* on_transformed_click at the image point q of the view, in a selection mode
SelectByClick(q) ==
    /\ Idle
    /\ ~mapper.crop_mode /\ mapper.transformed_frame # None
    /\ mapper.click_mode # "none"
    /\ mapper' = Selected(mapper, q)
    /\ UNCHANGED robot

\* on_transformed_click -> handle_click_to_touch -> run_touch_sequence
TouchByClick(t, q) ==
    /\ ~mapper.crop_mode /\ mapper.transformed_frame # None
    /\ mapper.click_mode = "none"
    /\ mapper.chk_click_to_touch
    /\ ClickTarget(mapper, robot_connected, q) # None
    /\ LET real == ClickTarget(mapper, robot_connected, q)[1]
       IN  \E pz \in PhoneZs, tf \in TouchForces, td \in HoldTimes,
              sz \in SafeZs, f \in Feedrates :
             CallWith(t, calculate_test_coordinates([mapper EXCEPT !.test_input = TextOf(q)]),
                      "handle_click_to_touch",
                      <<InUnits(real[1]), InUnits(real[2]), pz, tf, td, sz, f>>,
                      run_touch_sequence(InUnits(real[1]), InUnits(real[2]),
                                         pz, tf, td, sz, f))

\* on_transformed_click
on_transformed_click(t, points) ==
    \E q \in points : SelectByClick(q) \/ TouchByClick(t, q)

\* execute_test_touch
execute_test_touch(t) ==
    /\ TestTarget(mapper, robot_connected) # None
    /\ LET real == TestTarget(mapper, robot_connected)[1]
       IN  \E pz \in PhoneZs, tf \in TouchForces, td \in HoldTimes,
              sz \in SafeZs, f \in Feedrates :
             CallWith(t, Applied(mapper, PointOf(mapper.test_input)),
                      "execute_test_touch",
                      <<InUnits(real[1]), InUnits(real[2]), pz, tf, td, sz, f>>,
                      run_touch_sequence(InUnits(real[1]), InUnits(real[2]),
                                         pz, tf, td, sz, f))

\* goto_test_position of the application
GotoTestPoint(t) ==
    /\ TestTarget(mapper, robot_connected) # None
    /\ LET real == TestTarget(mapper, robot_connected)[1]
       IN  \E sz \in SafeZs, f \in Feedrates :
             CallWith(t, Applied(mapper, PointOf(mapper.test_input)),
                      "goto_test_position",
                      <<InUnits(real[1]), InUnits(real[2]), sz, f>>,
                      goto_test_position(InUnits(real[1]), InUnits(real[2]), sz, f))

----------------------------------------------------------------------------
(* The application with its robot, checked under SpecClick *)

ClickPairs == Typed(<<100, 100>>, <<-20, 30>>, <<300, 500>>, <<80, -70>>)

ClickPoints == { <<100, 100>> }

SelectionModes == {"point1", "point2", "test", "calib_test"}

\* a detection whose rectified view has the size the view starts with
ClickDetections ==
    { [chess_width |-> 400, chess_height |-> 300, raw_width |-> 800, raw_height |-> 600] }

\* what save_calibration wrote in an earlier session, after a detection
\* and a fit of ClickPairs
SavedCalibration ==
    [ mapping_matrix        |-> Some(Fitted(AtHeight(600), PairsOf(ClickPairs))),
      calibration_points    |-> PairsOf(ClickPairs),
      transformation_matrix |-> TRUE,
      height                |-> 600 ]

\* the application starts with a calibration file on disk
InitClick ==
    /\ conn = 0
    /\ openHandles = {}
    /\ lock = 0
    /\ pose = HomePosition
    /\ robot_connected = FALSE
    /\ rx = << >>
    /\ devq = << >>
    /\ wire = << >>
    /\ failed = NoFailure
    /\ script = [t \in Threads |-> << >>]
    /\ sc = [t \in Threads |-> "idle"]
    /\ resp = [t \in Threads |-> << >>]
    /\ result = [t \in Threads |-> "idle"]
    /\ op = [t \in Threads |-> [name |-> "none", a |-> << >>]]
    /\ pose0 = [t \in Threads |-> HomePosition]
    /\ last = [t \in Threads |-> "none"]
    /\ mapper = MapperInit(Some(SavedCalibration))

\* the buttons of the robot panel are pressed outside the selection and
\* crop modes
Settled == mapper.click_mode = "none" /\ ~mapper.crop_mode

NextClick ==
    \/ Idle /\ update_frame
    \/ Idle /\ \E d \in ClickDetections : detect_chessboard(d)
    \/ Idle /\ mapper.fields = EmptyFields /\ EnterPoints({ClickPairs})
    \/ Idle /\ calibrate_mapping
    \/ Idle /\ load_calibration
    \/ EnableSelection(SelectionModes)
    \/ on_crop_button_clicked
    \/ ToggleClickToTouch
    \/ \E t \in Main : on_transformed_click(t, ClickPoints)
    \/ Settled /\ \E t \in Main : execute_test_touch(t)
    \/ Settled /\ \E t \in Main : GotoTestPoint(t)
    \/ Settled /\ \E t \in Main : ConnectRobot(t, {"match"})
    \/ Settled /\ \E t \in Main : DisconnectRobot(t)
    \/ \E t \in Main : SendCheck(t)
    \/ \E t \in Main : Acquire(t)
    \/ \E t \in Main : Drain(t)
    \/ \E t \in Main : Write(t)
    \/ \E t \in Main : ReadLine(t)
    \/ \E t \in Main : Check(t)
    \/ \E t \in Main : SetMode(t)
    \/ \E t \in Main : UpdatePose(t)
    \/ \E t \in Main : Query(t)
    \/ \E t \in Main : LeaveTry(t)
    \/ \E t \in Main : SetFlag(t)
    \/ \E t \in Main : Return(t)
    \/ DeviceAck("ok")

SpecClick == InitClick /\ [][NextClick]_vars

\* a line that moves the robot
HasMove(w) == \E k \in 1..Len(w) : w[k].g = "G01"

TouchHandlers == {"handle_click_to_touch", "execute_test_touch", "goto_test_position"}

\* C24: before any successful fit or load (while there is no mapping), the
\* apply returns no point, and neither execute_test_touch nor
\* goto_test_position nor click-to-touch has called the controller or
\* written a motion command.
C24_NoMotionBeforeCalibration ==
    mapper.mapping_matrix = None =>
        /\ \A q \in ClickPoints : ImageToReal(mapper, FromInt(q[1]), FromInt(q[2])) = None
        /\ mapper.real_point = None
        /\ \A t \in Main : op[t].name \notin TouchHandlers
        /\ ~HasMove(wire)

\* connected, with a view and a test point that parses, and no mapping yet:
\* the test buttons are refused for want of a mapping alone
C24_Witness ==
    /\ mapper.mapping_matrix = None
    /\ robot_connected /\ Idle /\ Settled
    /\ mapper.transformed_frame # None
    /\ ParsesPoint(mapper.test_input)

\* C30: a click on the transformed view starts a touch sequence only if
\* click-to-touch is checked, a mapping exists, robot_connected is set, no
\* selection mode is active and crop mode is off at that time; a click that
\* a selection mode consumes resets the mode to none and leaves the robot
\* alone; and click-to-touch does not become checked while the mapping is
\* absent or the robot is not connected.
C30_ClickGating ==
    [][/\ \A t \in Main :
            (op'[t].name = "handle_click_to_touch" /\ ~Running(t) /\ Running(t)') =>
                /\ mapper.chk_click_to_touch
                /\ mapper.mapping_matrix # None
                /\ robot_connected
                /\ mapper.click_mode = "none"
                /\ ~mapper.crop_mode
       /\ \A t \in Main :
            (on_transformed_click(t, ClickPoints) /\ mapper.click_mode # "none") =>
                /\ mapper'.click_mode = "none"
                /\ UNCHANGED robot
       /\ (~mapper.chk_click_to_touch /\ mapper'.chk_click_to_touch) =>
                /\ mapper.mapping_matrix # None
                /\ robot_connected]_vars

\* a touch that a click started has written its move over the target
C30_Witness ==
    \E t \in Main :
        /\ op[t].name = "handle_click_to_touch"
        /\ Running(t)
        /\ HasMove(wire)

====
